---- MODULE Spec2Model ----
(***************************************************************************)
(* Episode / TV-show statistics of the cinetime backend.                   *)
(*                                                                         *)
(* The Episode collection (models/Episode.ts) and the Media collection     *)
(* (models/Media.ts) are two sets of documents.  Every request runs as a   *)
(* process; a process yields at every await on the database, so the steps  *)
(* of updateTVShowStats and of findOrphanedEpisodes are separate actions.  *)
(***************************************************************************)
EXTENDS Integers, FiniteSets, Sequences, TLC

(***************************************************************************)
(* Values                                                                  *)
(***************************************************************************)

\* a Date field that is not set (watchedAt: undefined)
NoDate == "undefined"

\* the value of new Date()
Now == "now"

\* a Number field the caller did not supply
NoNumber == -1

\* a String field the caller did not supply
NoString == "undefined"

\* runtime: { type: Number, default: 45 }
DefaultRuntime == 45

\* watchTimeMinutes: { type: Number, default: 0 }
DefaultWatchTimeMinutes == 0

\* enum of Episode.watchStatus
EpisodeWatchStatus == {"unwatched", "watched", "skipped"}

\* enum of Media.watchStatus
MediaWatchStatus == {"planned", "watching", "completed"}

\* enum of Media.type
MediaType == {"movie", "tv"}

\* the paths of mediaSchema: what a save of a Media document persists
MediaSchemaPaths ==
    {"_id", "tmdbId", "title", "type", "addedBy", "watchStatus", "rating",
     "watchTimeMinutes"}

\* rating: { type: Number, min: 1, max: 5 }, in both schemas
MinRating == 1

MaxRating == 5

(***************************************************************************)
(* Bounds of the model                                                     *)
(***************************************************************************)

\* episode numbers a caller uses are 0..MaxEpisodeNumber (0 is invalid)
MaxEpisodeNumber == 2

\* Media documents ever created (their _id is a counter)
MaxMediaDocs == 2

\* the request handlers that can be in flight together
Procs == {"p1", "p2"}

Users == {"u1", "u2"}

TmdbIds == {10, 20}

\* runtimes a caller supplies; NoNumber takes the schema default
RuntimeInputs == {NoNumber, 30}

VARIABLES
    episodes,    \* the Episode collection: a set of documents
    media,       \* the Media collection: a set of documents
    nextId,      \* the next Media _id
    pc,          \* per process: where the handler is
    op,          \* per process: the operation it runs or ran last
    key,         \* per process: (userId, tmdbId) of the recomputation
    found,       \* per process: the episodes updateTVShowStats read
    tvShow,      \* per process: the Media document it loaded ({} = null)
    outcome,     \* per process: what the caller of the last operation saw
    written,     \* per process: the episode document the operation persisted or removed
    replaced,    \* per process: the stored document a save overwrote ({} = an insert)
    statsExit,   \* per process: where the last updateTVShowStats returned
    groups,      \* per process: groups the for loop still has to check
    orphaned,    \* per process: the orphanedEpisodes array built so far
    aggregated,  \* per process: episodesByUserAndTmdb of cleanupAllOrphanedEpisodes
    episodeGroup, \* per process: the group whose deleteMany is awaited or whose await failed
    totalDeleted, \* per process: totalDeleted of cleanupAllOrphanedEpisodes
    deletedCount, \* per process: result.deletedCount of the last deleteMany
    rerun        \* per process: the pass follows a finished pass of the same caller

vars == <<episodes, media, nextId, pc, op, key, found, tvShow, outcome, written,
          replaced, statsExit, groups, orphaned, aggregated, episodeGroup,
          totalDeleted, deletedCount, rerun>>

stores == <<episodes, media, nextId>>

statsLocals == <<key, found, tvShow, statsExit>>

orphanLocals == <<groups, orphaned>>

cleanupLocals == <<aggregated, episodeGroup, totalDeleted, deletedCount, rerun>>

(***************************************************************************)
(* Episode documents                                                       *)
(***************************************************************************)

\* new Episode(fields): the schema defaults fill what the caller left out
NewEpisode(fields) ==
    [addedBy       |-> fields.addedBy,
     tmdbId        |-> fields.tmdbId,
     seasonNumber  |-> fields.seasonNumber,
     episodeNumber |-> fields.episodeNumber,
     runtime       |-> IF fields.runtime = NoNumber THEN DefaultRuntime ELSE fields.runtime,
     watchStatus   |-> IF fields.watchStatus = NoString THEN "unwatched" ELSE fields.watchStatus,
     watchedAt     |-> NoDate,
     rating        |-> IF "rating" \in DOMAIN fields THEN fields.rating ELSE NoNumber]

markAsWatched(doc) == [doc EXCEPT !.watchStatus = "watched", !.watchedAt = Now]

markAsUnwatched(doc) == [doc EXCEPT !.watchStatus = "unwatched", !.watchedAt = NoDate]

markAsSkipped(doc) == [doc EXCEPT !.watchStatus = "skipped", !.watchedAt = NoDate]

NoError == "none"

\* ValidationError that checks max and not min
ValidationErrorMaxOnly(doc) ==
    IF doc.rating # NoNumber /\ doc.rating > MaxRating
    THEN "ValidationError" ELSE NoError

\* save() validates the document before the pre-save hook runs: a rating that
\* is set has to be within min and max
ValidationError(doc) ==
    IF doc.rating # NoNumber /\ (doc.rating < MinRating \/ doc.rating > MaxRating)
    THEN "ValidationError" ELSE NoError

\* PreSaveError with the episode number compared with 0 instead of 1
PreSaveErrorBelowZero(doc) ==
    IF doc.episodeNumber < 0 THEN "Episode number must be at least 1"
    ELSE IF doc.seasonNumber < 0 THEN "Season number must be at least 0 (for specials)"
    ELSE NoError

\* the two throws of the pre-save hook
PreSaveError(doc) ==
    IF doc.episodeNumber < 1 THEN "Episode number must be at least 1"
    ELSE IF doc.seasonNumber < 0 THEN "Season number must be at least 0 (for specials)"
    ELSE NoError

\* what the database answers to a write that breaks the unique index
DuplicateKeyError == "E11000 duplicate key"

\* what addToWatchlist answers for a title that is on the watchlist already
AlreadyInWatchlist == "already in watchlist"

\* PreSaveNormalize without its second if: watchedAt is set and never cleared
PreSaveNormalizeSetOnly(doc) ==
    IF doc.watchStatus = "watched" /\ doc.watchedAt = NoDate
    THEN [doc EXCEPT !.watchedAt = Now] ELSE doc

\* the rest of the pre-save hook: watchedAt follows watchStatus
PreSaveNormalize(doc) ==
    LET d1 == IF doc.watchStatus = "watched" /\ doc.watchedAt = NoDate
              THEN [doc EXCEPT !.watchedAt = Now] ELSE doc
    IN  IF d1.watchStatus # "watched" /\ d1.watchedAt # NoDate
        THEN [d1 EXCEPT !.watchedAt = NoDate] ELSE d1

\* the key of the unique index
EpisodeIdentity(doc) ==
    <<doc.addedBy, doc.tmdbId, doc.seasonNumber, doc.episodeNumber>>

\* DuplicateKey for an index declared without { unique: true }
DuplicateKeyNotUnique(doc, others) == FALSE

\* DuplicateKey that also counts the stored version of the document itself
DuplicateKeyCountsSelf(doc, others) ==
    \E e \in episodes \cup others : EpisodeIdentity(e) = EpisodeIdentity(doc)

\* the unique index refuses a document whose key another document holds
DuplicateKey(doc, others) ==
    \E e \in others : EpisodeIdentity(e) = EpisodeIdentity(doc)

\* Episode.find({ addedBy, tmdbId })
EpisodesOf(userId, tmdbId) ==
    {e \in episodes : e.addedBy = userId /\ e.tmdbId = tmdbId}

(***************************************************************************)
(* updateTVShowStats: the statistics computed from the episodes it read    *)
(***************************************************************************)

\* ep.runtime || 45: a runtime of 0 is falsy
RuntimeOrDefault(ep) == IF ep.runtime = 0 THEN DefaultRuntime ELSE ep.runtime

RECURSIVE SumWatchTime(_)
\* .reduce((sum, ep) => sum + (ep.runtime || 45), 0)
SumWatchTime(eps) ==
    IF eps = {} THEN 0
    ELSE LET ep == CHOOSE x \in eps : TRUE
         IN  RuntimeOrDefault(ep) + SumWatchTime(eps \ {ep})

TotalEpisodes(eps) == Cardinality(eps)

WatchedEpisodes(eps) == Cardinality({e \in eps : e.watchStatus = "watched"})

SkippedEpisodes(eps) == Cardinality({e \in eps : e.watchStatus = "skipped"})

TotalWatchedEpisodes(eps) == WatchedEpisodes(eps) + SkippedEpisodes(eps)

TotalWatchTime(eps) == SumWatchTime({e \in eps : e.watchStatus = "watched"})

\* ShowWatchStatus without its first branch
ShowWatchStatusNoPlanned(totalWatchedEpisodes, totalEpisodes) ==
    IF totalWatchedEpisodes = totalEpisodes THEN "completed" ELSE "watching"

\* the if / else if / else that picks tvShow.watchStatus
ShowWatchStatus(totalWatchedEpisodes, totalEpisodes) ==
    IF totalWatchedEpisodes = 0 THEN "planned"
    ELSE IF totalWatchedEpisodes = totalEpisodes THEN "completed"
    ELSE "watching"

\* the in-memory tvShow after the three assignments: totalEpisodesWatched and
\* totalWatchTime are no paths of mediaSchema, they become plain properties
AssignStats(doc, eps) ==
    [f \in DOMAIN doc \cup {"totalEpisodesWatched", "totalWatchTime"} |->
        CASE f = "totalEpisodesWatched" -> TotalWatchedEpisodes(eps)
          [] f = "totalWatchTime"       -> TotalWatchTime(eps)
          [] f = "watchStatus"          -> ShowWatchStatus(TotalWatchedEpisodes(eps),
                                                           TotalEpisodes(eps))
          [] OTHER                      -> doc[f]]

(***************************************************************************)
(* Media documents                                                         *)
(***************************************************************************)

\* the title the catalogue has for a tmdbId
TitleOf(tmdbId) == IF tmdbId = 10 THEN "Show 10" ELSE "Show 20"

\* new Media({ tmdbId, title, type, addedBy }) with the schema defaults
NewMedia(id, userId, tmdbId, type) ==
    [_id              |-> id,
     tmdbId           |-> tmdbId,
     title            |-> TitleOf(tmdbId),
     type             |-> type,
     addedBy          |-> userId,
     watchStatus      |-> "planned",
     rating           |-> NoNumber,
     watchTimeMinutes |-> DefaultWatchTimeMinutes]

\* save() of a Media document validates it: a rating that is set has to be
\* within min and max
MediaValidationError(doc) ==
    IF doc.rating # NoNumber /\ (doc.rating < MinRating \/ doc.rating > MaxRating)
    THEN "ValidationError" ELSE NoError

\* MediaSave as an update of every document of the tmdbId
MediaSaveByTmdbId(loaded, doc, coll) ==
    {IF m.tmdbId = doc.tmdbId
     THEN [f \in DOMAIN m |->
              IF f \in MediaSchemaPaths /\ doc[f] # loaded[f] THEN doc[f] ELSE m[f]]
     ELSE m : m \in coll}

\* tvShow.save(): an update by _id of the schema paths whose value differs
\* from the loaded one; a property that is no schema path is not written,
\* and a document that is gone is not written back
MediaSave(loaded, doc, coll) ==
    {IF m._id = doc._id
     THEN [f \in DOMAIN m |->
              IF f \in MediaSchemaPaths /\ doc[f] # loaded[f] THEN doc[f] ELSE m[f]]
     ELSE m : m \in coll}

\* TvShowsOf without type: "tv" in the filter
TvShowsOfAnyType(userId, tmdbId) ==
    {m \in media : m.addedBy = userId /\ m.tmdbId = tmdbId}

\* Media.findOne / Media.exists ({ addedBy, tmdbId, type: "tv" })
TvShowsOf(userId, tmdbId) ==
    {m \in media : m.addedBy = userId /\ m.tmdbId = tmdbId /\ m.type = "tv"}

\* a field of a stored document, NoNumber when the document has no such field
StoredNumber(doc, f) == IF f \in DOMAIN doc THEN doc[f] ELSE NoNumber

(***************************************************************************)
(* Processes                                                               *)
(***************************************************************************)

NoKey == [userId |-> NoString, tmdbId |-> NoNumber]

StatsPcs == {"stats_find", "stats_findOne", "stats_save"}

\* where updateTVShowStats failed
FailedAt(at) ==
    CASE at = "stats_find"    -> "failed_find"
      [] at = "stats_findOne" -> "failed_findOne"
      [] at = "stats_save"    -> "failed_save"

StatsFailures == {FailedAt(at) : at \in StatsPcs}

\* StatsErrorOutcome with the error thrown on to the caller of save()
StatsErrorRethrown == "Update TV show stats error"

\* what the caller of save() / deleteOne() sees when updateTVShowStats failed:
\* the catch of updateTVShowStats logs the error and returns
StatsErrorOutcome == "ok"

\* no request is in flight
InitProcs ==
    /\ pc = [p \in Procs |-> "idle"]
    /\ op = [p \in Procs |-> "none"]
    /\ key = [p \in Procs |-> NoKey]
    /\ found = [p \in Procs |-> {}]
    /\ tvShow = [p \in Procs |-> {}]
    /\ outcome = [p \in Procs |-> NoError]
    /\ written = [p \in Procs |-> {}]
    /\ replaced = [p \in Procs |-> {}]
    /\ statsExit = [p \in Procs |-> "none"]
    /\ groups = [p \in Procs |-> {}]
    /\ orphaned = [p \in Procs |-> <<>>]
    /\ aggregated = [p \in Procs |-> {}]
    /\ episodeGroup = [p \in Procs |-> {}]
    /\ totalDeleted = [p \in Procs |-> NoNumber]
    /\ deletedCount = [p \in Procs |-> NoNumber]
    /\ rerun = [p \in Procs |-> FALSE]

\* both collections are empty
Init ==
    /\ episodes = {}
    /\ media = {}
    /\ nextId = 1
    /\ InitProcs

\* a handler starts: the locals of updateTVShowStats are fresh
BeginRequest(p, name) ==
    /\ pc[p] = "idle"
    /\ op' = [op EXCEPT ![p] = name]
    /\ found' = [found EXCEPT ![p] = {}]
    /\ tvShow' = [tvShow EXCEPT ![p] = {}]
    /\ statsExit' = [statsExit EXCEPT ![p] = "none"]

\* the locals of a pass of cleanupAllOrphanedEpisodes are gone
NoCleanup(p) ==
    /\ aggregated' = [aggregated EXCEPT ![p] = {}]
    /\ episodeGroup' = [episodeGroup EXCEPT ![p] = {}]
    /\ totalDeleted' = [totalDeleted EXCEPT ![p] = NoNumber]
    /\ rerun' = [rerun EXCEPT ![p] = FALSE]

\* a handler that calls neither findOrphanedEpisodes nor a deleteMany starts
Begin(p, name) ==
    /\ BeginRequest(p, name)
    /\ groups' = [groups EXCEPT ![p] = {}]
    /\ orphaned' = [orphaned EXCEPT ![p] = <<>>]
    /\ NoCleanup(p)
    /\ deletedCount' = [deletedCount EXCEPT ![p] = NoNumber]

\* the handler fails before it wrote anything
Reject(p, error) ==
    /\ pc' = pc
    /\ outcome' = [outcome EXCEPT ![p] = error]
    /\ key' = [key EXCEPT ![p] = NoKey]
    /\ written' = [written EXCEPT ![p] = {}]
    /\ replaced' = [replaced EXCEPT ![p] = {}]
    /\ UNCHANGED stores

\* doc.save(): pre-save hook, write under the unique index, then the
\* post-save hook starts updateTVShowStats(this.addedBy, this.tmdbId)
SaveEpisode(p, isNew, orig, doc) ==
    /\ pc[p] = "idle"
    /\ IF ValidationError(doc) # NoError
       THEN Reject(p, ValidationError(doc))
       ELSE IF PreSaveError(doc) # NoError
       THEN Reject(p, PreSaveError(doc))
       ELSE LET d == PreSaveNormalize(doc)
                others == IF isNew THEN episodes ELSE episodes \ {orig}
            IN  IF DuplicateKey(d, others)
                THEN Reject(p, DuplicateKeyError)
                ELSE /\ episodes' = others \cup {d}
                     /\ written' = [written EXCEPT ![p] = {d}]
                     /\ replaced' = [replaced EXCEPT ![p] = IF isNew THEN {} ELSE {orig}]
                     /\ key' = [key EXCEPT ![p] = [userId |-> d.addedBy, tmdbId |-> d.tmdbId]]
                     /\ pc' = [pc EXCEPT ![p] = "stats_find"]
                     /\ outcome' = [outcome EXCEPT ![p] = "pending"]
                     /\ UNCHANGED <<media, nextId>>
    /\ Begin(p, "save")

\* new Episode(fields).save()
CreateEpisode(p, fields) ==
    SaveEpisode(p, TRUE, NewEpisode(fields), NewEpisode(fields))

\* the fields a caller supplied, assigned to a loaded document
AssignFields(doc, fields) ==
    [doc EXCEPT
        !.runtime = IF fields.runtime = NoNumber THEN @ ELSE fields.runtime,
        !.watchStatus = IF fields.watchStatus = NoString THEN @ ELSE fields.watchStatus,
        !.rating = IF "rating" \in DOMAIN fields /\ fields.rating # NoNumber
                   THEN fields.rating ELSE @]

\* upsertEpisode(owner, showId, season, episode, fields): insert or update by identity
UpsertEpisode(p, fields) ==
    LET existing == {e \in episodes : EpisodeIdentity(e) = EpisodeIdentity(fields)}
    IN  IF existing = {}
        THEN SaveEpisode(p, TRUE, NewEpisode(fields), NewEpisode(fields))
        ELSE \E e \in existing : SaveEpisode(p, FALSE, e, AssignFields(e, fields))

\* a loaded episode, one of the three mark methods, save()
MarkEpisode(p, e, how) ==
    /\ e \in episodes
    /\ SaveEpisode(p, FALSE, e,
                   CASE how = "markAsWatched"   -> markAsWatched(e)
                     [] how = "markAsUnwatched" -> markAsUnwatched(e)
                     [] how = "markAsSkipped"   -> markAsSkipped(e))

\* episode.deleteOne(): the document is removed, then the post-deleteOne hook
\* starts updateTVShowStats(this.addedBy, this.tmdbId)
DeleteEpisode(p, e) ==
    /\ e \in episodes
    /\ Begin(p, "deleteOne")
    /\ episodes' = episodes \ {e}
    /\ written' = [written EXCEPT ![p] = {e}]
    /\ replaced' = [replaced EXCEPT ![p] = {}]
    /\ key' = [key EXCEPT ![p] = [userId |-> e.addedBy, tmdbId |-> e.tmdbId]]
    /\ pc' = [pc EXCEPT ![p] = "stats_find"]
    /\ outcome' = [outcome EXCEPT ![p] = "pending"]
    /\ UNCHANGED <<media, nextId>>

\* updateTVShowStats returns; the hook returns; save() / deleteOne() resolves
StatsReturn(p, exit, result) ==
    /\ pc' = [pc EXCEPT ![p] = "idle"]
    /\ statsExit' = [statsExit EXCEPT ![p] = exit]
    /\ outcome' = [outcome EXCEPT ![p] = result]
    /\ found' = [found EXCEPT ![p] = {}]
    /\ tvShow' = [tvShow EXCEPT ![p] = {}]

\* StatsFind that resets the show to planned when it has no episode left
StatsFindResetsEmpty(p) ==
    /\ pc[p] = "stats_find"
    /\ LET eps == EpisodesOf(key[p].userId, key[p].tmdbId)
       IN  IF eps = {}
           THEN /\ StatsReturn(p, "no_episodes", "ok")
                /\ media' = {IF m \in TvShowsOf(key[p].userId, key[p].tmdbId)
                             THEN [m EXCEPT !.watchStatus = "planned"] ELSE m : m \in media}
           ELSE /\ found' = [found EXCEPT ![p] = eps]
                /\ pc' = [pc EXCEPT ![p] = "stats_findOne"]
                /\ UNCHANGED <<media, tvShow, statsExit, outcome>>
    /\ UNCHANGED <<episodes, nextId, op, key, written, replaced, orphanLocals, cleanupLocals>>

\* const episodes = await Episode.find(...); if (episodes.length === 0) return
StatsFind(p) ==
    /\ pc[p] = "stats_find"
    /\ LET eps == EpisodesOf(key[p].userId, key[p].tmdbId)
       IN  IF eps = {}
           THEN StatsReturn(p, "no_episodes", "ok")
           ELSE /\ found' = [found EXCEPT ![p] = eps]
                /\ pc' = [pc EXCEPT ![p] = "stats_findOne"]
                /\ UNCHANGED <<tvShow, statsExit, outcome>>
    /\ UNCHANGED <<stores, op, key, written, replaced, orphanLocals, cleanupLocals>>

\* StatsFindOne that creates the show when there is none
StatsFindOneCreates(p) ==
    /\ pc[p] = "stats_findOne"
    /\ LET shows == TvShowsOf(key[p].userId, key[p].tmdbId)
       IN  IF shows = {}
           THEN /\ StatsReturn(p, "no_show", "ok")
                /\ media' = media \cup {NewMedia(nextId, key[p].userId, key[p].tmdbId, "tv")}
                /\ nextId' = nextId + 1
           ELSE /\ \E m \in shows :
                    /\ tvShow' = [tvShow EXCEPT ![p] = {m}]
                    /\ pc' = [pc EXCEPT ![p] = "stats_save"]
                    /\ UNCHANGED <<found, statsExit, outcome>>
                /\ UNCHANGED <<media, nextId>>
    /\ UNCHANGED <<episodes, op, key, written, replaced, orphanLocals, cleanupLocals>>

\* const tvShow = await Media.findOne(...); if (tvShow) ...
StatsFindOne(p) ==
    /\ pc[p] = "stats_findOne"
    /\ LET shows == TvShowsOf(key[p].userId, key[p].tmdbId)
       IN  IF shows = {}
           THEN StatsReturn(p, "no_show", "ok")
           ELSE \E m \in shows :
                    /\ tvShow' = [tvShow EXCEPT ![p] = {m}]
                    /\ pc' = [pc EXCEPT ![p] = "stats_save"]
                    /\ UNCHANGED <<found, statsExit, outcome>>
    /\ UNCHANGED <<stores, op, key, written, replaced, orphanLocals, cleanupLocals>>

\* StatsSave that waits until no other request is in a recomputation or in a
\* pass of cleanupAllOrphanedEpisodes, as under a lock on the show
StatsSaveUnderLock(p) ==
    /\ pc[p] = "stats_save"
    /\ \A q \in Procs \ {p} : pc[q] = "idle"
    /\ LET loaded == CHOOSE m \in tvShow[p] : TRUE
       IN  media' = MediaSave(loaded, AssignStats(loaded, found[p]), media)
    /\ StatsReturn(p, "saved", "ok")
    /\ UNCHANGED <<episodes, nextId, op, key, written, replaced, orphanLocals, cleanupLocals>>

\* the assignments to tvShow and await tvShow.save()
StatsSave(p) ==
    /\ pc[p] = "stats_save"
    /\ LET loaded == CHOOSE m \in tvShow[p] : TRUE
       IN  media' = MediaSave(loaded, AssignStats(loaded, found[p]), media)
    /\ StatsReturn(p, "saved", "ok")
    /\ UNCHANGED <<episodes, nextId, op, key, written, replaced, orphanLocals, cleanupLocals>>

\* one of the three awaits of updateTVShowStats rejects: the catch logs it
StatsError(p) ==
    /\ pc[p] \in StatsPcs
    /\ StatsReturn(p, FailedAt(pc[p]), StatsErrorOutcome)
    /\ UNCHANGED <<stores, op, key, written, replaced, orphanLocals, cleanupLocals>>

\* addToWatchlist: a title is added once per (owner, catalogId, kind)
AddToWatchlist(p, userId, tmdbId, type) ==
    /\ Begin(p, "addToWatchlist")
    /\ nextId <= MaxMediaDocs
    /\ IF \E m \in media : m.addedBy = userId /\ m.tmdbId = tmdbId /\ m.type = type
       THEN Reject(p, AlreadyInWatchlist)
       ELSE /\ media' = media \cup {NewMedia(nextId, userId, tmdbId, type)}
            /\ nextId' = nextId + 1
            /\ outcome' = [outcome EXCEPT ![p] = "ok"]
            /\ key' = [key EXCEPT ![p] = NoKey]
            /\ written' = [written EXCEPT ![p] = {}]
            /\ replaced' = [replaced EXCEPT ![p] = {}]
            /\ UNCHANGED <<episodes, pc>>

(***************************************************************************)
(* Spec: one request at a time, the episodes of one show                   *)
(***************************************************************************)

\* what a caller upserts for an episode of show 10 of user u1: season 0 holds the
\* specials, the episodes are numbered from 1
ValidEpisodeInputs ==
    [addedBy : {"u1"}, tmdbId : {10}, seasonNumber : {0},
     episodeNumber : 1..MaxEpisodeNumber, runtime : RuntimeInputs,
     watchStatus : EpisodeWatchStatus \cup {NoString}]

\* the same with an episode number below 1 or a season number below 0
InvalidEpisodeInputs ==
    [addedBy : {"u1"}, tmdbId : {10}, seasonNumber : {-1, 0},
     episodeNumber : {0, 1}, runtime : {NoNumber},
     watchStatus : {NoString, "watched"}] \ ValidEpisodeInputs

EpisodeInputs == ValidEpisodeInputs \cup InvalidEpisodeInputs

MarkMethods == {"markAsWatched", "markAsUnwatched", "markAsSkipped"}

Next ==
    \/ \E f \in EpisodeInputs : UpsertEpisode("p1", f)
    \/ \E e \in episodes, how \in MarkMethods : MarkEpisode("p1", e, how)
    \/ \E e \in episodes : DeleteEpisode("p1", e)
    \/ AddToWatchlist("p1", "u1", 10, "tv")
    \/ StatsFind("p1")
    \/ StatsFindOne("p1")
    \/ StatsSave("p1")

Spec == Init /\ [][Next]_vars

(***************************************************************************)
(* SpecShow: the same requests on a show that is on the watchlist          *)
(***************************************************************************)

\* user u1 has added show 10 and no episode yet
InitShow ==
    /\ episodes = {}
    /\ media = {NewMedia(1, "u1", 10, "tv")}
    /\ nextId = 2
    /\ InitProcs

SpecShow == InitShow /\ [][Next]_vars

(***************************************************************************)
(* SpecFault: one request at a time, and the database may fail an await    *)
(* of updateTVShowStats                                                    *)
(***************************************************************************)

\* what a caller upserts here: the runtime is left to the schema default
FaultEpisodeInputs ==
    [addedBy : {"u1"}, tmdbId : {10}, seasonNumber : {0},
     episodeNumber : 1..MaxEpisodeNumber, runtime : {NoNumber},
     watchStatus : {"unwatched", "watched"}]

NextFault ==
    \/ \E f \in FaultEpisodeInputs : UpsertEpisode("p1", f)
    \/ \E e \in episodes : DeleteEpisode("p1", e)
    \/ AddToWatchlist("p1", "u1", 10, "tv")
    \/ StatsFind("p1")
    \/ StatsFindOne("p1")
    \/ StatsSave("p1")
    \/ StatsError("p1")

SpecFault == Init /\ [][NextFault]_vars

(***************************************************************************)
(* SpecConc: every process runs one request; the two requests interleave   *)
(* on the episodes of a show that is on the watchlist                      *)
(***************************************************************************)

ConcEpisodeInputs ==
    [addedBy : {"u1"}, tmdbId : {10}, seasonNumber : {0},
     episodeNumber : 1..MaxEpisodeNumber, runtime : {NoNumber},
     watchStatus : {"unwatched", "watched"}]

\* the documents earlier saves of these inputs have stored
ConcStoredEpisodes == {PreSaveNormalize(NewEpisode(f)) : f \in ConcEpisodeInputs}

\* the states earlier requests, one at a time, have left: some episodes of the
\* show, and its aggregate with the status of the last recomputation
InitConc ==
    /\ episodes \in {S \in SUBSET ConcStoredEpisodes :
                        \A a, b \in S : EpisodeIdentity(a) = EpisodeIdentity(b) => a = b}
    /\ media = {[NewMedia(1, "u1", 10, "tv") EXCEPT !.watchStatus =
                    IF episodes = {} THEN "planned"
                    ELSE ShowWatchStatus(TotalWatchedEpisodes(episodes),
                                         TotalEpisodes(episodes))]}
    /\ nextId = 2
    /\ InitProcs

NextConc ==
    \E p \in Procs :
        \/ \E f \in ConcEpisodeInputs : op[p] = "none" /\ CreateEpisode(p, f)
        \/ \E f \in ConcEpisodeInputs : op[p] = "none" /\ UpsertEpisode(p, f)
        \/ \E e \in episodes : op[p] = "none" /\ DeleteEpisode(p, e)
        \/ StatsFind(p)
        \/ StatsFindOne(p)
        \/ StatsSave(p)

SpecConc == InitConc /\ [][NextConc]_vars

(***************************************************************************)
(* findOrphanedEpisodes                                                    *)
(***************************************************************************)

\* the $group / $project pipeline: one entry per (addedBy, tmdbId) that has
\* episodes, with their number
EpisodesByUserAndTmdb ==
    {[addedBy |-> k[1], tmdbId |-> k[2], count |-> Cardinality(EpisodesOf(k[1], k[2]))] :
        k \in {<<e.addedBy, e.tmdbId>> : e \in episodes}}

\* const episodesByUserAndTmdb = await this.aggregate([...])
FindOrphanedGroup(p) ==
    /\ BeginRequest(p, "findOrphanedEpisodes")
    /\ groups' = [groups EXCEPT ![p] = EpisodesByUserAndTmdb]
    /\ orphaned' = [orphaned EXCEPT ![p] = <<>>]
    /\ pc' = [pc EXCEPT ![p] = "orphan_loop"]
    /\ outcome' = [outcome EXCEPT ![p] = "pending"]
    /\ key' = [key EXCEPT ![p] = NoKey]
    /\ written' = [written EXCEPT ![p] = {}]
    /\ replaced' = [replaced EXCEPT ![p] = {}]
    /\ NoCleanup(p)
    /\ deletedCount' = [deletedCount EXCEPT ![p] = NoNumber]
    /\ UNCHANGED stores

\* FindOrphanedCheck with the loop body of cleanupAllOrphanedEpisodes: the
\* episodes of a group without its show are deleted, not reported
FindOrphanedCheckDeleting(p) ==
    /\ pc[p] = "orphan_loop"
    /\ \E g \in groups[p] :
          /\ groups' = [groups EXCEPT ![p] = @ \ {g}]
          /\ episodes' = IF TvShowsOf(g.addedBy, g.tmdbId) = {}
                         THEN episodes \ EpisodesOf(g.addedBy, g.tmdbId)
                         ELSE episodes
    /\ UNCHANGED <<media, nextId, pc, op, outcome, written, replaced, statsLocals,
                   orphaned, cleanupLocals>>

\* one turn of the for loop: await Media.exists(...), push when there is none.
\* The pipeline has no $sort, the groups come in any order.
FindOrphanedCheck(p) ==
    /\ pc[p] = "orphan_loop"
    /\ \E g \in groups[p] :
          /\ groups' = [groups EXCEPT ![p] = @ \ {g}]
          /\ orphaned' = [orphaned EXCEPT ![p] =
                            IF TvShowsOf(g.addedBy, g.tmdbId) = {}
                            THEN Append(@, g) ELSE @]
    /\ UNCHANGED <<stores, pc, op, outcome, written, replaced, statsLocals, cleanupLocals>>

\* return orphanedEpisodes
FindOrphanedReturn(p) ==
    /\ pc[p] = "orphan_loop"
    /\ groups[p] = {}
    /\ pc' = [pc EXCEPT ![p] = "idle"]
    /\ outcome' = [outcome EXCEPT ![p] = "ok"]
    /\ UNCHANGED <<stores, op, written, replaced, statsLocals, orphanLocals, cleanupLocals>>

(***************************************************************************)
(* SpecOrphan: one request at a time, the episodes and the watchlists of   *)
(* two users                                                               *)
(***************************************************************************)

OrphanEpisodeInputs ==
    [addedBy : Users, tmdbId : {10}, seasonNumber : {0},
     episodeNumber : 1..MaxEpisodeNumber, runtime : {NoNumber},
     watchStatus : {NoString}]

NextOrphan ==
    \/ \E f \in OrphanEpisodeInputs : CreateEpisode("p1", f)
    \/ \E u \in Users, t \in MediaType : AddToWatchlist("p1", u, 10, t)
    \/ StatsFind("p1")
    \/ StatsFindOne("p1")
    \/ StatsSave("p1")
    \/ FindOrphanedGroup("p1")
    \/ FindOrphanedCheck("p1")
    \/ FindOrphanedReturn("p1")

SpecOrphan == Init /\ [][NextOrphan]_vars

(***************************************************************************)
(* cleanupAllOrphanedEpisodes                                              *)
(***************************************************************************)

CleanupPcs == {"cleanup_loop", "cleanup_deleteMany"}

\* the $group pipeline of cleanupAllOrphanedEpisodes: it has no $project, the
\* key of a group stays under _id
EpisodeGroups ==
    {[_id |-> [addedBy |-> k[1], tmdbId |-> k[2]],
      count |-> Cardinality(EpisodesOf(k[1], k[2]))] :
        k \in {<<e.addedBy, e.tmdbId>> : e \in episodes}}

\* DeleteMany with a filter that leaves out addedBy
DeleteManyByTmdbId(userId, tmdbId) == {e \in episodes : e.tmdbId = tmdbId}

\* DeleteMany that removes one document, as deleteOne does
DeleteManyFirstOnly(userId, tmdbId) ==
    IF EpisodesOf(userId, tmdbId) = {} THEN {}
    ELSE {CHOOSE e \in EpisodesOf(userId, tmdbId) : TRUE}

\* the documents deleteMany({ addedBy: userId, tmdbId }) removes
DeleteMany(userId, tmdbId) == EpisodesOf(userId, tmdbId)

\* AddDeleted that counts the groups instead of their episodes
AddDeletedGroups(total, count) == total + 1

\* totalDeleted += result.deletedCount || 0
AddDeleted(total, count) == total + count

\* what the caller sees when an await of the pass rejected: the catch logs the
\* error and throws it on
CleanupErrorOutcome == "Cleanup error"

\* const episodesByUserAndTmdb = await Episode.aggregate([...]); let totalDeleted = 0
CleanupAggregate(p) ==
    /\ BeginRequest(p, "cleanupAllOrphanedEpisodes")
    /\ rerun' = [rerun EXCEPT ![p] =
                    op[p] = "cleanupAllOrphanedEpisodes" /\ outcome[p] = "ok"]
    /\ aggregated' = [aggregated EXCEPT ![p] = EpisodeGroups]
    /\ groups' = [groups EXCEPT ![p] = EpisodeGroups]
    /\ orphaned' = [orphaned EXCEPT ![p] = <<>>]
    /\ episodeGroup' = [episodeGroup EXCEPT ![p] = {}]
    /\ totalDeleted' = [totalDeleted EXCEPT ![p] = 0]
    /\ deletedCount' = [deletedCount EXCEPT ![p] = NoNumber]
    /\ pc' = [pc EXCEPT ![p] = "cleanup_loop"]
    /\ outcome' = [outcome EXCEPT ![p] = "pending"]
    /\ key' = [key EXCEPT ![p] = NoKey]
    /\ written' = [written EXCEPT ![p] = {}]
    /\ replaced' = [replaced EXCEPT ![p] = {}]
    /\ UNCHANGED stores

\* CleanupExists without the Media.exists check: every group is deleted
CleanupExistsUnchecked(p) ==
    /\ pc[p] = "cleanup_loop"
    /\ \E g \in groups[p] :
          /\ groups' = [groups EXCEPT ![p] = @ \ {g}]
          /\ episodeGroup' = [episodeGroup EXCEPT ![p] = {g}]
          /\ pc' = [pc EXCEPT ![p] = "cleanup_deleteMany"]
    /\ UNCHANGED <<stores, op, outcome, written, replaced, statsLocals, orphaned,
                   aggregated, totalDeleted, deletedCount, rerun>>

\* CleanupExists with a Media.exists filter that leaves out type: "tv"
CleanupExistsAnyType(p) ==
    /\ pc[p] = "cleanup_loop"
    /\ \E g \in groups[p] :
          /\ groups' = [groups EXCEPT ![p] = @ \ {g}]
          /\ IF TvShowsOfAnyType(g._id.addedBy, g._id.tmdbId) = {}
             THEN /\ episodeGroup' = [episodeGroup EXCEPT ![p] = {g}]
                  /\ pc' = [pc EXCEPT ![p] = "cleanup_deleteMany"]
             ELSE UNCHANGED <<episodeGroup, pc>>
    /\ UNCHANGED <<stores, op, outcome, written, replaced, statsLocals, orphaned,
                   aggregated, totalDeleted, deletedCount, rerun>>

\* the next group of the for loop: await Media.exists(...); if (!tvShowExists)
\* the deleteMany of the group is next.  The pipeline has no $sort, the groups
\* come in any order.
CleanupExists(p) ==
    /\ pc[p] = "cleanup_loop"
    /\ \E g \in groups[p] :
          /\ groups' = [groups EXCEPT ![p] = @ \ {g}]
          /\ IF TvShowsOf(g._id.addedBy, g._id.tmdbId) = {}
             THEN /\ episodeGroup' = [episodeGroup EXCEPT ![p] = {g}]
                  /\ pc' = [pc EXCEPT ![p] = "cleanup_deleteMany"]
             ELSE UNCHANGED <<episodeGroup, pc>>
    /\ UNCHANGED <<stores, op, outcome, written, replaced, statsLocals, orphaned,
                   aggregated, totalDeleted, deletedCount, rerun>>

\* const result = await Episode.deleteMany(...); totalDeleted += result.deletedCount || 0
CleanupDeleteMany(p) ==
    /\ pc[p] = "cleanup_deleteMany"
    /\ LET g == CHOOSE x \in episodeGroup[p] : TRUE
           removed == DeleteMany(g._id.addedBy, g._id.tmdbId)
       IN  /\ episodes' = episodes \ removed
           /\ deletedCount' = [deletedCount EXCEPT ![p] = Cardinality(removed)]
           /\ totalDeleted' = [totalDeleted EXCEPT ![p] = AddDeleted(@, Cardinality(removed))]
           /\ written' = [written EXCEPT ![p] = @ \cup removed]
    /\ episodeGroup' = [episodeGroup EXCEPT ![p] = {}]
    /\ pc' = [pc EXCEPT ![p] = "cleanup_loop"]
    /\ UNCHANGED <<media, nextId, op, outcome, replaced, statsLocals, orphanLocals,
                   aggregated, rerun>>

\* return { totalDeleted }
CleanupReturn(p) ==
    /\ pc[p] = "cleanup_loop"
    /\ groups[p] = {}
    /\ pc' = [pc EXCEPT ![p] = "idle"]
    /\ outcome' = [outcome EXCEPT ![p] = "ok"]
    /\ UNCHANGED <<stores, op, written, replaced, statsLocals, orphanLocals, cleanupLocals>>

\* the Media.exists of the next group, or the deleteMany that is awaited,
\* rejects: the catch around the whole pass logs the error and throws it on.
\* episodeGroup is the group that failed, groups are those after it.
CleanupError(p) ==
    /\ \/ /\ pc[p] = "cleanup_loop"
          /\ \E g \in groups[p] :
                /\ groups' = [groups EXCEPT ![p] = @ \ {g}]
                /\ episodeGroup' = [episodeGroup EXCEPT ![p] = {g}]
       \/ /\ pc[p] = "cleanup_deleteMany"
          /\ UNCHANGED <<groups, episodeGroup>>
    /\ pc' = [pc EXCEPT ![p] = "idle"]
    /\ outcome' = [outcome EXCEPT ![p] = CleanupErrorOutcome]
    /\ UNCHANGED <<stores, op, written, replaced, statsLocals, orphaned,
                   aggregated, totalDeleted, deletedCount, rerun>>

(***************************************************************************)
(* SpecCleanup: one request at a time, the episodes and the watchlists of  *)
(* two users, and passes of cleanupAllOrphanedEpisodes                     *)
(***************************************************************************)

NextCleanup ==
    \/ \E f \in OrphanEpisodeInputs : CreateEpisode("p1", f)
    \/ \E u \in Users, t \in MediaType : AddToWatchlist("p1", u, 10, t)
    \/ StatsFind("p1")
    \/ StatsFindOne("p1")
    \/ StatsSave("p1")
    \/ CleanupAggregate("p1")
    \/ CleanupExists("p1")
    \/ CleanupDeleteMany("p1")
    \/ CleanupReturn("p1")

SpecCleanup == Init /\ [][NextCleanup]_vars

(***************************************************************************)
(* SpecReconcileFault: one request at a time; the database may fail an     *)
(* await of findOrphanedEpisodes or of cleanupAllOrphanedEpisodes          *)
(***************************************************************************)

\* what the caller sees when an await of findOrphanedEpisodes rejected: the
\* catch logs the error and throws it on
FindOrphanedErrorOutcome == "Error finding orphaned episodes"

\* the Media.exists that is awaited rejects: catch, throw error
FindOrphanedError(p) ==
    /\ pc[p] = "orphan_loop"
    /\ groups[p] # {}
    /\ pc' = [pc EXCEPT ![p] = "idle"]
    /\ outcome' = [outcome EXCEPT ![p] = FindOrphanedErrorOutcome]
    /\ UNCHANGED <<stores, op, written, replaced, statsLocals, orphanLocals, cleanupLocals>>

NextReconcileFault ==
    \/ \E f \in OrphanEpisodeInputs : CreateEpisode("p1", f)
    \/ \E u \in Users, t \in MediaType : AddToWatchlist("p1", u, 10, t)
    \/ StatsFind("p1")
    \/ StatsFindOne("p1")
    \/ StatsSave("p1")
    \/ FindOrphanedGroup("p1")
    \/ FindOrphanedCheck("p1")
    \/ FindOrphanedReturn("p1")
    \/ FindOrphanedError("p1")
    \/ CleanupAggregate("p1")
    \/ CleanupExists("p1")
    \/ CleanupDeleteMany("p1")
    \/ CleanupReturn("p1")
    \/ CleanupError("p1")

SpecReconcileFault == Init /\ [][NextReconcileFault]_vars

(***************************************************************************)
(* deleteByTmdbIdAndUser, cleanupEpisodesForTVShow                         *)
(***************************************************************************)

\* BulkDelete that also sets the show of the removed episodes back to planned
BulkDeleteResetsShow(p, name, tmdbId, userId) ==
    /\ BeginRequest(p, name)
    /\ groups' = [groups EXCEPT ![p] = {}]
    /\ orphaned' = [orphaned EXCEPT ![p] = <<>>]
    /\ NoCleanup(p)
    /\ LET removed == DeleteMany(userId, tmdbId)
       IN  /\ episodes' = episodes \ removed
           /\ deletedCount' = [deletedCount EXCEPT ![p] = Cardinality(removed)]
           /\ written' = [written EXCEPT ![p] = removed]
    /\ media' = {IF m \in TvShowsOf(userId, tmdbId)
                 THEN [m EXCEPT !.watchStatus = "planned"] ELSE m : m \in media}
    /\ replaced' = [replaced EXCEPT ![p] = {}]
    /\ key' = [key EXCEPT ![p] = NoKey]
    /\ outcome' = [outcome EXCEPT ![p] = "ok"]
    /\ UNCHANGED <<nextId, pc>>

\* const result = await this.deleteMany({ tmdbId, addedBy: userId });
\* return { deletedCount: result.deletedCount || 0 }.  deleteMany is a query:
\* the post("deleteOne") document hook does not run.
BulkDelete(p, name, tmdbId, userId) ==
    /\ BeginRequest(p, name)
    /\ groups' = [groups EXCEPT ![p] = {}]
    /\ orphaned' = [orphaned EXCEPT ![p] = <<>>]
    /\ NoCleanup(p)
    /\ LET removed == DeleteMany(userId, tmdbId)
       IN  /\ episodes' = episodes \ removed
           /\ deletedCount' = [deletedCount EXCEPT ![p] = Cardinality(removed)]
           /\ written' = [written EXCEPT ![p] = removed]
    /\ replaced' = [replaced EXCEPT ![p] = {}]
    /\ key' = [key EXCEPT ![p] = NoKey]
    /\ outcome' = [outcome EXCEPT ![p] = "ok"]
    /\ UNCHANGED <<media, nextId, pc>>

DeleteByTmdbIdAndUser(p, tmdbId, userId) ==
    BulkDelete(p, "deleteByTmdbIdAndUser", tmdbId, userId)

CleanupEpisodesForTVShow(p, tmdbId, userId) ==
    BulkDelete(p, "cleanupEpisodesForTVShow", tmdbId, userId)

(***************************************************************************)
(* SpecBulk: one request at a time; watched episodes of two shows and two  *)
(* users, show 10 of u1 may be on the watchlist                            *)
(***************************************************************************)

\* the episodes of show 10 of u1, and the first episode of every other show
BulkEpisodeInputs ==
    {f \in [addedBy : Users, tmdbId : TmdbIds, seasonNumber : {0},
            episodeNumber : 1..MaxEpisodeNumber, runtime : {NoNumber},
            watchStatus : {"watched"}] :
        f.episodeNumber = 1 \/ (f.addedBy = "u1" /\ f.tmdbId = 10)}

NextBulk ==
    \/ \E f \in BulkEpisodeInputs : CreateEpisode("p1", f)
    \/ \E e \in episodes : DeleteEpisode("p1", e)
    \/ AddToWatchlist("p1", "u1", 10, "tv")
    \/ StatsFind("p1")
    \/ StatsFindOne("p1")
    \/ StatsSave("p1")
    \/ \E u \in Users, t \in TmdbIds : DeleteByTmdbIdAndUser("p1", t, u)
    \/ \E u \in Users, t \in TmdbIds : CleanupEpisodesForTVShow("p1", t, u)

SpecBulk == Init /\ [][NextBulk]_vars

(***************************************************************************)
(* SpecRating: one request at a time; episodes and the show are rated      *)
(***************************************************************************)

\* a caller rates a title of the watchlist: the document is loaded, its rating
\* assigned, and saved
RateMedia(p, m, rating) ==
    /\ m \in media
    /\ Begin(p, "rateMedia")
    /\ LET doc == [m EXCEPT !.rating = rating]
       IN  IF MediaValidationError(doc) # NoError
           THEN Reject(p, MediaValidationError(doc))
           ELSE /\ media' = MediaSave(m, doc, media)
                /\ outcome' = [outcome EXCEPT ![p] = "ok"]
                /\ key' = [key EXCEPT ![p] = NoKey]
                /\ written' = [written EXCEPT ![p] = {}]
                /\ replaced' = [replaced EXCEPT ![p] = {}]
                /\ UNCHANGED <<episodes, nextId, pc>>

\* the ratings a caller supplies: below, at and above the two limits
RatingInputs == {0, 1, 5, 6}

RatingEpisodeInputs ==
    [addedBy : {"u1"}, tmdbId : {10}, seasonNumber : {0},
     episodeNumber : 1..MaxEpisodeNumber, runtime : {NoNumber},
     watchStatus : {"watched"}, rating : RatingInputs \cup {NoNumber}]

NextRating ==
    \/ \E f \in RatingEpisodeInputs : CreateEpisode("p1", f)
    \/ \E f \in RatingEpisodeInputs : UpsertEpisode("p1", f)
    \/ AddToWatchlist("p1", "u1", 10, "tv")
    \/ \E m \in media, r \in RatingInputs : RateMedia("p1", m, r)
    \/ StatsFind("p1")
    \/ StatsFindOne("p1")
    \/ StatsSave("p1")

SpecRating == Init /\ [][NextRating]_vars

(***************************************************************************)
(* SpecPersistFault: one request at a time; the database may fail an await *)
(* of any of the four reconciler operations or of updateTVShowStats        *)
(***************************************************************************)

\* BulkDeleteErrorOutcome with the error logged and not thrown on
BulkDeleteErrorSwallowed == "ok"

\* what the caller sees when the deleteMany of deleteByTmdbIdAndUser or of
\* cleanupEpisodesForTVShow rejected: the catch logs the error and throws it on
BulkDeleteErrorOutcome == "Error deleting episodes"

\* await this.deleteMany(...) rejects: nothing is removed, no result is
\* returned; catch, throw error
BulkDeleteError(p, name) ==
    /\ BeginRequest(p, name)
    /\ groups' = [groups EXCEPT ![p] = {}]
    /\ orphaned' = [orphaned EXCEPT ![p] = <<>>]
    /\ NoCleanup(p)
    /\ deletedCount' = [deletedCount EXCEPT ![p] = NoNumber]
    /\ written' = [written EXCEPT ![p] = {}]
    /\ replaced' = [replaced EXCEPT ![p] = {}]
    /\ key' = [key EXCEPT ![p] = NoKey]
    /\ outcome' = [outcome EXCEPT ![p] = BulkDeleteErrorOutcome]
    /\ UNCHANGED <<stores, pc>>

DeleteByTmdbIdAndUserError(p) == BulkDeleteError(p, "deleteByTmdbIdAndUser")

CleanupEpisodesForTVShowError(p) == BulkDeleteError(p, "cleanupEpisodesForTVShow")

\* the four operations that reconcile episodes with the watchlists
ReconcilerOps ==
    {"deleteByTmdbIdAndUser", "cleanupEpisodesForTVShow",
     "findOrphanedEpisodes", "cleanupAllOrphanedEpisodes"}

\* watched episodes of show 10 of the two users
PersistFaultEpisodeInputs ==
    [addedBy : Users, tmdbId : {10}, seasonNumber : {0},
     episodeNumber : 1..MaxEpisodeNumber, runtime : {NoNumber},
     watchStatus : {"watched"}]

NextPersistFault ==
    \/ \E f \in PersistFaultEpisodeInputs : CreateEpisode("p1", f)
    \/ \E u \in Users, t \in MediaType : AddToWatchlist("p1", u, 10, t)
    \/ StatsFind("p1")
    \/ StatsFindOne("p1")
    \/ StatsSave("p1")
    \/ StatsError("p1")
    \/ FindOrphanedGroup("p1")
    \/ FindOrphanedCheck("p1")
    \/ FindOrphanedReturn("p1")
    \/ FindOrphanedError("p1")
    \/ CleanupAggregate("p1")
    \/ CleanupExists("p1")
    \/ CleanupDeleteMany("p1")
    \/ CleanupReturn("p1")
    \/ CleanupError("p1")
    \/ \E u \in Users : DeleteByTmdbIdAndUser("p1", 10, u)
    \/ \E u \in Users : CleanupEpisodesForTVShow("p1", 10, u)
    \/ DeleteByTmdbIdAndUserError("p1")
    \/ CleanupEpisodesForTVShowError("p1")

SpecPersistFault == Init /\ [][NextPersistFault]_vars

(***************************************************************************)
(* SpecLive: two processes issue episode writes and passes of              *)
(* cleanupAllOrphanedEpisodes on the episodes of one show, in any          *)
(* interleaving.  The database answers every await of updateTVShowStats,   *)
(* and the event loop runs the continuation: a step of a recomputation     *)
(* that stays enabled is taken.                                            *)
(***************************************************************************)

\* watched episodes of show 10 of u1, and one with an episode number the
\* pre-save hook refuses
LiveEpisodeInputs ==
    [addedBy : {"u1"}, tmdbId : {10}, seasonNumber : {0},
     episodeNumber : 0..MaxEpisodeNumber, runtime : {NoNumber},
     watchStatus : {"watched"}]

NextLive ==
    \E p \in Procs :
        \/ \E f \in LiveEpisodeInputs : CreateEpisode(p, f)
        \/ \E e \in episodes : DeleteEpisode(p, e)
        \/ AddToWatchlist(p, "u1", 10, "tv")
        \/ StatsFind(p)
        \/ StatsFindOne(p)
        \/ StatsSave(p)
        \/ CleanupAggregate(p)
        \/ CleanupExists(p)
        \/ CleanupDeleteMany(p)
        \/ CleanupReturn(p)

\* every await of updateTVShowStats is answered
StatsFairness ==
    \A p \in Procs :
        /\ WF_vars(StatsFind(p))
        /\ WF_vars(StatsFindOne(p))
        /\ WF_vars(StatsSave(p))

SpecLive == Init /\ [][NextLive]_vars /\ StatsFairness

(***************************************************************************)
(* SpecRace: a pass of cleanupAllOrphanedEpisodes in one process, while    *)
(* user u1 adds show 10 to the watchlist and saves episodes of it in the   *)
(* other                                                                   *)
(***************************************************************************)

RaceEpisodeInputs ==
    [addedBy : {"u1"}, tmdbId : {10}, seasonNumber : {0},
     episodeNumber : 1..MaxEpisodeNumber, runtime : {NoNumber},
     watchStatus : {"watched"}]

NextRace ==
    \/ \E f \in RaceEpisodeInputs : CreateEpisode("p2", f)
    \/ AddToWatchlist("p2", "u1", 10, "tv")
    \/ StatsFind("p2")
    \/ StatsFindOne("p2")
    \/ StatsSave("p2")
    \/ CleanupAggregate("p1")
    \/ CleanupExists("p1")
    \/ CleanupDeleteMany("p1")
    \/ CleanupReturn("p1")

SpecRace == Init /\ [][NextRace]_vars

(***************************************************************************)
(* SpecFrame: one request at a time; two users save watched episodes of    *)
(* show 10, add it to their watchlists as tv or as movie, and rate it      *)
(***************************************************************************)

FrameEpisodeInputs ==
    [addedBy : Users, tmdbId : {10}, seasonNumber : {0},
     episodeNumber : 1..MaxEpisodeNumber, runtime : {NoNumber},
     watchStatus : {"watched"}]

NextFrame ==
    \/ \E f \in FrameEpisodeInputs : CreateEpisode("p1", f)
    \/ \E u \in Users, t \in MediaType : AddToWatchlist("p1", u, 10, t)
    \/ \E m \in media : RateMedia("p1", m, MaxRating)
    \/ StatsFind("p1")
    \/ StatsFindOne("p1")
    \/ StatsSave("p1")

SpecFrame == Init /\ [][NextFrame]_vars

(***************************************************************************)
(* SpecEquiv: on a store that earlier requests have left, one call of      *)
(* findOrphanedEpisodes and then, with no write in between, one pass of    *)
(* cleanupAllOrphanedEpisodes                                              *)
(***************************************************************************)

\* the documents earlier saves of episodes of show 10 have stored
EquivStoredEpisodes == {PreSaveNormalize(NewEpisode(f)) : f \in OrphanEpisodeInputs}

\* the watchlists earlier addToWatchlist requests for show 10 have left: up
\* to MaxMediaDocs entries of different (owner, type), numbered as added
EquivStoredMedia ==
    UNION {{{NewMedia(i, s[i][1], 10, s[i][2]) : i \in 1..n} :
               s \in {t \in [1..n -> Users \X MediaType] :
                         \A i, j \in 1..n : t[i] = t[j] => i = j}} :
           n \in 0..MaxMediaDocs}

InitEquiv ==
    /\ episodes \in SUBSET EquivStoredEpisodes
    /\ media \in EquivStoredMedia
    /\ nextId = Cardinality(media) + 1
    /\ InitProcs

NextEquiv ==
    \/ op["p1"] = "none" /\ FindOrphanedGroup("p1")
    \/ FindOrphanedCheck("p1")
    \/ FindOrphanedReturn("p1")
    \/ /\ op["p1"] = "findOrphanedEpisodes" /\ pc["p1"] = "idle"
       /\ op["p2"] = "none"
       /\ CleanupAggregate("p2")
    \/ CleanupExists("p2")
    \/ CleanupDeleteMany("p2")
    \/ CleanupReturn("p2")

SpecEquiv == InitEquiv /\ [][NextEquiv]_vars

(***************************************************************************)
(* SpecRuntime: one request at a time; episodes of one show are saved      *)
(* with a runtime of 0, with another runtime, or with none                 *)
(***************************************************************************)

\* runtimes a caller supplies here: 0 minutes as well
ZeroRuntimeInputs == RuntimeInputs \cup {0}

RuntimeEpisodeInputs ==
    [addedBy : {"u1"}, tmdbId : {10}, seasonNumber : {0},
     episodeNumber : 1..MaxEpisodeNumber, runtime : ZeroRuntimeInputs,
     watchStatus : {"unwatched", "watched"}]

NextRuntime ==
    \/ \E f \in RuntimeEpisodeInputs : UpsertEpisode("p1", f)
    \/ AddToWatchlist("p1", "u1", 10, "tv")
    \/ StatsFind("p1")
    \/ StatsFindOne("p1")
    \/ StatsSave("p1")

SpecRuntime == Init /\ [][NextRuntime]_vars

(***************************************************************************)
(* What the aggregate of a show is to hold, computed from its episodes     *)
(***************************************************************************)

RECURSIVE SumRuntime(_)
SumRuntime(eps) ==
    IF eps = {} THEN 0
    ELSE LET ep == CHOOSE x \in eps : TRUE
         IN  ep.runtime + SumRuntime(eps \ {ep})

\* the episodes that are watched or skipped
CompletedCount(eps) ==
    Cardinality({e \in eps : e.watchStatus \in {"watched", "skipped"}})

\* the minutes of the watched episodes
WatchedMinutes(eps) == SumRuntime({e \in eps : e.watchStatus = "watched"})

\* planned / completed / in progress (stored as "watching")
ExpectedStatus(eps) ==
    CASE CompletedCount(eps) = 0 -> "planned"
      [] CompletedCount(eps) # 0 /\ CompletedCount(eps) = Cardinality(eps) -> "completed"
      [] OTHER -> "watching"

\* a stored aggregate holds the count and the minutes of these episodes
CountsMatch(m, eps) ==
    /\ StoredNumber(m, "totalEpisodesWatched") = CompletedCount(eps)
    /\ StoredNumber(m, "totalWatchTime") = WatchedMinutes(eps)

\* process p is back from an episode write whose recomputation saved the aggregate
Recomputed(p) == pc[p] = "idle" /\ statsExit[p] = "saved"

(***************************************************************************)
(* Claims                                                                  *)
(***************************************************************************)

\* C1: after updateTVShowStats ran for a show with episodes and a tv aggregate,
\* the stored aggregate holds episodesWatchedCount = the number of watched or
\* skipped episodes and totalWatchMinutes = the minutes of the watched ones.
C1_PersistedCounts ==
    \A p \in Procs :
        Recomputed(p) =>
            \A m \in TvShowsOf(key[p].userId, key[p].tmdbId) :
                CountsMatch(m, EpisodesOf(key[p].userId, key[p].tmdbId))

\* C2: after updateTVShowStats ran for a show with episodes and a tv aggregate,
\* the stored status is planned when no episode is watched or skipped, completed
\* when all are, and watching in every other case.
C2_StatusClassification ==
    \A p \in Procs :
        Recomputed(p) =>
            \A m \in TvShowsOf(key[p].userId, key[p].tmdbId) :
                LET eps == EpisodesOf(key[p].userId, key[p].tmdbId)
                    done == {e \in eps : e.watchStatus \in {"watched", "skipped"}}
                IN  /\ eps # {}
                    /\ m.watchStatus \in MediaWatchStatus
                    /\ (m.watchStatus = "planned") = (done = {})
                    /\ (m.watchStatus = "completed") = (done = eps)
                    /\ (m.watchStatus = "watching") = (done # {} /\ done # eps)

\* a recomputation stored "watching": some but not all episodes are done
C2_Witness ==
    /\ Recomputed("p1")
    /\ \E m \in TvShowsOf("u1", 10) : m.watchStatus = "watching"
    /\ \E e \in EpisodesOf("u1", 10) : e.watchStatus = "skipped"
    /\ \E e \in EpisodesOf("u1", 10) : e.watchStatus = "unwatched"

\* the status part of C3
C3_StatusPart ==
    \A p \in Procs :
        (/\ pc[p] = "idle"
         /\ op[p] \in {"save", "deleteOne"}
         /\ statsExit[p] \in {"saved", "no_episodes"}) =>
            \A m \in TvShowsOf(key[p].userId, key[p].tmdbId) :
                m.watchStatus = ExpectedStatus(EpisodesOf(key[p].userId, key[p].tmdbId))

\* the count and minutes part of C3
C3_CountsPart ==
    \A p \in Procs :
        (/\ pc[p] = "idle"
         /\ op[p] \in {"save", "deleteOne"}
         /\ statsExit[p] \in {"saved", "no_episodes"}) =>
            \A m \in TvShowsOf(key[p].userId, key[p].tmdbId) :
                CountsMatch(m, EpisodesOf(key[p].userId, key[p].tmdbId))

\* C3: one request at a time, after every episode save or deleteOne and the
\* recomputation it started, the tv aggregate of the show holds the count, the
\* minutes and the status computed from the episodes now stored, also when the
\* last episode of the show was just deleted.
C3_SequentialConsistency == C3_StatusPart /\ C3_CountsPart

\* C6: an upsert of an identity that is stored already succeeds and updates
\* that record: no second record, no failure.
C6_UpsertUpdatesExisting ==
    [][\A f \in ValidEpisodeInputs :
          LET same(S) == {e \in S : EpisodeIdentity(e) = EpisodeIdentity(f)}
          IN  (same(episodes) # {} /\ UpsertEpisode("p1", f)) =>
                 /\ outcome'["p1"] = "pending"
                 /\ pc'["p1"] = "stats_find"
                 /\ Cardinality(episodes') = Cardinality(episodes)
                 /\ Cardinality(same(episodes')) = 1
                 /\ \A e \in same(episodes') :
                       /\ f.watchStatus # NoString => e.watchStatus = f.watchStatus
                       /\ f.runtime # NoNumber => e.runtime = f.runtime
                       /\ \A o \in same(episodes) :
                             /\ f.watchStatus = NoString => e.watchStatus = o.watchStatus
                             /\ f.runtime = NoNumber => e.runtime = o.runtime]_vars

\* an upsert replaced a stored record by one with another runtime and status
C6_Witness ==
    /\ pc["p1"] = "idle" /\ op["p1"] = "save" /\ outcome["p1"] = "ok"
    /\ \E o \in replaced["p1"], d \in written["p1"] :
          /\ EpisodeIdentity(o) = EpisodeIdentity(d)
          /\ o.runtime # d.runtime
          /\ o.watchStatus # d.watchStatus
          /\ d \in episodes
          /\ o \notin episodes

\* C7: in every stored episode watchedAt is set exactly when watchStatus is
\* watched; a write that takes an episode out of watched clears watchedAt.
C7_WatchedAtIffWatched ==
    \A e \in episodes : (e.watchedAt # NoDate) = (e.watchStatus = "watched")

\* an upsert that only assigned watchStatus took a watched episode to skipped
C7_Witness ==
    /\ pc["p1"] = "idle" /\ op["p1"] = "save" /\ outcome["p1"] = "ok"
    /\ \E o \in replaced["p1"], d \in written["p1"] :
          /\ o.watchStatus = "watched" /\ o.watchedAt = Now
          /\ d.watchStatus = "skipped" /\ d.watchedAt = NoDate
          /\ o.runtime # d.runtime
          /\ d \in episodes

\* C8: a save with episodeNumber < 1 or seasonNumber < 0 fails before anything
\* is written: both collections stay as they were, nothing is recomputed.
C8_InvalidRejected ==
    [][\A f \in InvalidEpisodeInputs :
          (CreateEpisode("p1", f) \/ UpsertEpisode("p1", f)) =>
              /\ outcome'["p1"] = PreSaveError(f)
              /\ outcome'["p1"] # NoError
              /\ UNCHANGED <<episodes, media, nextId>>
              /\ pc'["p1"] = "idle"
              /\ statsExit'["p1"] = "none"]_vars

\* a save was refused for its episode number while both collections hold documents
C8_Witness ==
    /\ pc["p1"] = "idle" /\ op["p1"] = "save"
    /\ outcome["p1"] = "Episode number must be at least 1"
    /\ written["p1"] = {}
    /\ episodes # {}
    /\ media # {}

\* C9: a failure of any await of the recomputation leaves the save or delete
\* that started it a success, and what it wrote stays written.
C9_StatsFailureSwallowed ==
    \A p \in Procs :
        (pc[p] = "idle" /\ statsExit[p] \in StatsFailures) =>
            /\ outcome[p] = "ok"
            /\ written[p] # {}
            /\ op[p] = "save" => written[p] \subseteq episodes
            /\ op[p] = "deleteOne" => written[p] \cap episodes = {}

\* the save of the aggregate failed after an episode was saved as watched
C9_Witness ==
    /\ pc["p1"] = "idle" /\ op["p1"] = "save"
    /\ statsExit["p1"] = "failed_save"
    /\ outcome["p1"] = "ok"
    /\ \E d \in written["p1"] : d \in episodes /\ d.watchStatus = "watched"
    /\ \E m \in TvShowsOf("u1", 10) : m.watchStatus = "planned"

\* the two processes are back from saves of different episodes of one show,
\* and the recomputation of each saved the aggregate
BothRecomputed(p, q) ==
    /\ p # q
    /\ Recomputed(p) /\ Recomputed(q)
    /\ op[p] = "save" /\ op[q] = "save"
    /\ key[p] = key[q]
    /\ \A d \in written[p], e \in written[q] : EpisodeIdentity(d) # EpisodeIdentity(e)

\* the status part of C4
C4_StatusPart ==
    \A p, q \in Procs :
        BothRecomputed(p, q) =>
            \A m \in TvShowsOf(key[p].userId, key[p].tmdbId) :
                m.watchStatus = ExpectedStatus(EpisodesOf(key[p].userId, key[p].tmdbId))

\* the count and minutes part of C4
C4_CountsPart ==
    \A p, q \in Procs :
        BothRecomputed(p, q) =>
            \A m \in TvShowsOf(key[p].userId, key[p].tmdbId) :
                CountsMatch(m, EpisodesOf(key[p].userId, key[p].tmdbId))

\* C4: once two concurrent saves of different episodes of a show and their
\* recomputations have finished, the aggregate holds the count, the minutes and
\* the status computed from the episodes now stored.
C4_EventuallyConsistent == C4_StatusPart /\ C4_CountsPart

\* C5: no two stored episodes share (addedBy, tmdbId, seasonNumber, episodeNumber),
\* whatever the interleaving of the writes.
C5_IdentityUnique ==
    \A a, b \in episodes : EpisodeIdentity(a) = EpisodeIdentity(b) => a = b

\* two inserts of one identity raced: the second was refused by the index while
\* the first was still recomputing
C5_Witness ==
    /\ outcome["p2"] = DuplicateKeyError
    /\ pc["p2"] = "idle"
    /\ pc["p1"] \in StatsPcs
    /\ replaced["p1"] = {}
    /\ \E d \in written["p1"] : d \in episodes

\* the elements of a sequence
Range(seq) == {seq[i] : i \in 1..Len(seq)}

\* the groups that have episodes and no aggregate of type tv, with their size
OrphanedGroups ==
    {[addedBy |-> u, tmdbId |-> t,
      count |-> Cardinality({e \in episodes : e.addedBy = u /\ e.tmdbId = t})] :
        <<u, t>> \in {k \in Users \X TmdbIds :
                        /\ \E e \in episodes : e.addedBy = k[1] /\ e.tmdbId = k[2]
                        /\ ~\E m \in media : /\ m.addedBy = k[1] /\ m.tmdbId = k[2]
                                             /\ m.type = "tv"}}

\* C10: findOrphanedEpisodes returns exactly the (owner, show) groups that have
\* episodes and no aggregate of type tv, each once and with its number of
\* episodes; a group whose aggregate has been created is not returned.
C10_OrphanedGroupsExact ==
    \A p \in Procs :
        (pc[p] = "idle" /\ op[p] = "findOrphanedEpisodes" /\ outcome[p] = "ok") =>
            /\ Range(orphaned[p]) = OrphanedGroups
            /\ Len(orphaned[p]) = Cardinality(OrphanedGroups)

\* a call returned the two episodes of u2, who has show 10 as a movie only, and
\* not the episodes of u1, whose aggregate of type tv exists
C10_Witness ==
    /\ pc["p1"] = "idle" /\ op["p1"] = "findOrphanedEpisodes" /\ outcome["p1"] = "ok"
    /\ orphaned["p1"] = <<[addedBy |-> "u2", tmdbId |-> 10, count |-> 2]>>
    /\ EpisodesOf("u1", 10) # {}
    /\ \E m \in media : m.addedBy = "u1" /\ m.tmdbId = 10 /\ m.type = "tv"
    /\ \E m \in media : m.addedBy = "u2" /\ m.tmdbId = 10 /\ m.type = "movie"

\* the sum of the counts of a set of groups
RECURSIVE SumCounts(_)
SumCounts(gs) ==
    IF gs = {} THEN 0
    ELSE LET g == CHOOSE x \in gs : TRUE
         IN  g.count + SumCounts(gs \ {g})

\* a group of the pass has no aggregate of type tv
IsOrphanedGroup(g) ==
    ~\E m \in media : /\ m.addedBy = g._id.addedBy /\ m.tmdbId = g._id.tmdbId
                      /\ m.type = "tv"

\* C11: when a pass of cleanupAllOrphanedEpisodes has returned, with no other
\* write in between, no (owner, show) group with episodes lacks its aggregate
\* of type tv, and totalDeleted is the sum of the episode counts of the groups
\* that were orphaned when the pass started.
C11_CleanupRemovesOrphans ==
    \A p \in Procs :
        (/\ pc[p] = "idle"
         /\ op[p] = "cleanupAllOrphanedEpisodes"
         /\ outcome[p] = "ok") =>
            /\ OrphanedGroups = {}
            /\ totalDeleted[p] = SumCounts({g \in aggregated[p] : IsOrphanedGroup(g)})

\* a pass returned 2: it removed the two episodes of u2, who has show 10 as a
\* movie only, and kept the episodes of u1, whose aggregate of type tv exists
C11_Witness ==
    /\ pc["p1"] = "idle" /\ op["p1"] = "cleanupAllOrphanedEpisodes"
    /\ outcome["p1"] = "ok"
    /\ totalDeleted["p1"] = 2
    /\ Cardinality(aggregated["p1"]) = 2
    /\ EpisodesOf("u1", 10) # {}
    /\ EpisodesOf("u2", 10) = {}
    /\ \E m \in media : m.addedBy = "u2" /\ m.tmdbId = 10 /\ m.type = "movie"

\* C12: a pass of cleanupAllOrphanedEpisodes that directly follows a finished
\* pass, with no write in between, changes neither collection at any of its
\* steps and returns totalDeleted = 0.
C12_SecondPassDeletesNothing ==
    [][\A p \in Procs :
          (rerun'[p] /\ op'[p] = "cleanupAllOrphanedEpisodes") =>
              /\ UNCHANGED <<episodes, media>>
              /\ totalDeleted'[p] = 0]_vars

\* the second of two passes in succession returned 0 after it looked at the
\* episodes of a show whose aggregate exists
C12_Witness ==
    /\ pc["p1"] = "idle" /\ op["p1"] = "cleanupAllOrphanedEpisodes"
    /\ outcome["p1"] = "ok"
    /\ rerun["p1"]
    /\ totalDeleted["p1"] = 0
    /\ aggregated["p1"] # {}
    /\ groups["p1"] = {}

\* C13: when the Media.exists or the deleteMany of one group failed during a
\* pass of cleanupAllOrphanedEpisodes, the pass has still dealt with the groups
\* that come after it: none of them is left with episodes and without its
\* aggregate of type tv.
C13_FailureDoesNotAbortPass ==
    \A p \in Procs :
        (/\ pc[p] = "idle"
         /\ op[p] = "cleanupAllOrphanedEpisodes"
         /\ outcome[p] = CleanupErrorOutcome) =>
            \A g \in groups[p] :
                IsOrphanedGroup(g) => EpisodesOf(g._id.addedBy, g._id.tmdbId) = {}

\* C14: no step of findOrphanedEpisodes, from its aggregate to its return or
\* to the error it throws, changes the Episode or the Media collection.
C14_FindOrphanedReadOnly ==
    [][\A p \in Procs :
          (pc[p] = "orphan_loop" \/ pc'[p] = "orphan_loop") =>
              UNCHANGED <<episodes, media, nextId>>]_vars

\* a call failed after it had found one orphaned group; the episodes of both
\* users and a watchlist entry are stored
C14_Witness ==
    /\ pc["p1"] = "idle" /\ op["p1"] = "findOrphanedEpisodes"
    /\ outcome["p1"] = FindOrphanedErrorOutcome
    /\ Len(orphaned["p1"]) = 1
    /\ EpisodesOf("u1", 10) # {}
    /\ EpisodesOf("u2", 10) # {}
    /\ media # {}

\* C15: cleanupEpisodesForTVShow and deleteByTmdbIdAndUser for (userId, tmdbId)
\* remove every episode of that owner and show and no other episode, whether
\* or not the show is on the watchlist; they return the number removed (0 when
\* there was none) and leave the Media collection alone.
C15_BulkDeleteExact ==
    [][\A u \in Users, t \in TmdbIds :
          (CleanupEpisodesForTVShow("p1", t, u) \/ DeleteByTmdbIdAndUser("p1", t, u)) =>
              /\ episodes' = {e \in episodes : ~(e.addedBy = u /\ e.tmdbId = t)}
              /\ deletedCount'["p1"] =
                    Cardinality({e \in episodes : e.addedBy = u /\ e.tmdbId = t})
              /\ outcome'["p1"] = "ok"
              /\ UNCHANGED <<media, nextId>>]_vars

\* cleanupEpisodesForTVShow removed the two episodes of show 10 of u1 while the
\* show was on the watchlist; the episodes of u2 and of show 20 are still stored
C15_Witness ==
    /\ pc["p1"] = "idle" /\ op["p1"] = "cleanupEpisodesForTVShow"
    /\ outcome["p1"] = "ok"
    /\ deletedCount["p1"] = 2
    /\ EpisodesOf("u1", 10) = {}
    /\ \E m \in media : m.addedBy = "u1" /\ m.tmdbId = 10 /\ m.type = "tv"
    /\ EpisodesOf("u2", 10) # {}
    /\ EpisodesOf("u1", 20) # {}

\* the operations that write episodes
EpisodeWrites == {"save", "deleteOne", "deleteByTmdbIdAndUser", "cleanupEpisodesForTVShow"}

\* C16: every finished episode write that stored or removed an episode of a
\* show that is on the watchlist has run a recomputation of that show, the
\* deleteMany of deleteByTmdbIdAndUser / cleanupEpisodesForTVShow as well as
\* save and deleteOne.
C16_EveryWriteRecomputes ==
    \A p \in Procs :
        (/\ pc[p] = "idle"
         /\ op[p] \in EpisodeWrites
         /\ outcome[p] = "ok"
         /\ \E e \in written[p] :
               \E m \in media : m.addedBy = e.addedBy /\ m.tmdbId = e.tmdbId /\ m.type = "tv") =>
            statsExit[p] # "none"

\* C17: updateTVShowStats for an (owner, show) that has no episode returns at
\* once: the Media collection, the show's stored status included, is unchanged.
C17_NoEpisodesNoOp ==
    [][\A p \in Procs :
          (pc[p] = "stats_find" /\ EpisodesOf(key[p].userId, key[p].tmdbId) = {}) =>
              /\ UNCHANGED <<episodes, media, nextId>>
              /\ pc'[p] = "idle"
              /\ statsExit'[p] = "no_episodes"]_vars

\* the last episode of a completed show was deleted: the recomputation returned
\* at the empty list and the show is still stored as completed
C17_Witness ==
    /\ pc["p1"] = "idle" /\ op["p1"] = "deleteOne"
    /\ statsExit["p1"] = "no_episodes"
    /\ EpisodesOf("u1", 10) = {}
    /\ \E m \in TvShowsOf("u1", 10) : m.watchStatus = "completed"

\* C18: updateTVShowStats for an (owner, show) with no Media of type tv changes
\* nothing, and no step of an episode save or of its recomputation adds a
\* Media document: the episodes stay a group without a show.
C18_NoShowNoOp ==
    [][\A p \in Procs :
          /\ (pc[p] \in StatsPcs \/ pc'[p] \in StatsPcs) =>
                /\ Cardinality(media') = Cardinality(media)
                /\ nextId' = nextId
          /\ (pc[p] = "stats_findOne" /\ TvShowsOf(key[p].userId, key[p].tmdbId) = {}) =>
                /\ UNCHANGED <<episodes, media, nextId>>
                /\ pc'[p] = "idle"
                /\ statsExit'[p] = "no_show"]_vars

\* an episode of u2 was saved while u2 had show 10 as a movie only: the
\* recomputation found no show and the group is orphaned
C18_Witness ==
    /\ pc["p1"] = "idle" /\ op["p1"] = "save"
    /\ statsExit["p1"] = "no_show"
    /\ key["p1"].userId = "u2"
    /\ \E m \in media : m.addedBy = "u2" /\ m.tmdbId = 10 /\ m.type = "movie"
    /\ [addedBy |-> "u2", tmdbId |-> 10, count |-> 1] \in OrphanedGroups

\* C19: the Media collection never holds two documents with the same addedBy
\* and tmdbId, also when an owner adds a title that is stored already.
C19_OneAggregatePerTitle ==
    \A a, b \in media : (a.addedBy = b.addedBy /\ a.tmdbId = b.tmdbId) => a = b

\* a rating that is present and outside 1..5
BadRating(r) == r # NoNumber /\ (r < 1 \/ r > 5)

\* C20: a save of an episode, new or stored, or of a Media document whose
\* rating is present and outside 1..5 fails with a validation error; both
\* collections stay as they were and nothing is recomputed.
C20_BadRatingRejected ==
    [][/\ \A f \in RatingEpisodeInputs :
             (BadRating(f.rating) /\ (CreateEpisode("p1", f) \/ UpsertEpisode("p1", f))) =>
                 /\ outcome'["p1"] = "ValidationError"
                 /\ UNCHANGED <<episodes, media, nextId>>
                 /\ pc'["p1"] = "idle"
       /\ \A m \in media, r \in RatingInputs :
             (BadRating(r) /\ RateMedia("p1", m, r)) =>
                 /\ outcome'["p1"] = "ValidationError"
                 /\ UNCHANGED <<episodes, media, nextId>>
                 /\ pc'["p1"] = "idle"]_vars

\* a rating of a stored episode was refused: the episode keeps its rating of 5,
\* the show its rating of 1
C20_Witness ==
    /\ pc["p1"] = "idle" /\ op["p1"] = "save"
    /\ outcome["p1"] = "ValidationError"
    /\ written["p1"] = {}
    /\ \E e \in episodes : e.rating = 5
    /\ \E m \in media : m.rating = 1

\* what a caller that got no error sees
NoFailure == {"ok", "pending", NoError}

\* C21: an await of deleteByTmdbIdAndUser, cleanupEpisodesForTVShow,
\* findOrphanedEpisodes or cleanupAllOrphanedEpisodes that rejects ends the
\* operation at once with an error for its caller: the operation is over, the
\* stores are as the failure left them, no step of it runs again.  An await of
\* updateTVShowStats that rejects ends the episode write with success.
C21_FailurePropagates ==
    [][\A p \in Procs :
          /\ (\/ DeleteByTmdbIdAndUserError(p)
              \/ CleanupEpisodesForTVShowError(p)
              \/ FindOrphanedError(p)
              \/ CleanupError(p)) =>
                /\ outcome'[p] \notin NoFailure
                /\ pc'[p] = "idle"
                /\ op'[p] \in ReconcilerOps
                /\ UNCHANGED <<episodes, media, nextId>>
          /\ StatsError(p) =>
                /\ outcome'[p] = "ok"
                /\ pc'[p] = "idle"]_vars

\* a pass of cleanupAllOrphanedEpisodes failed after it had deleted the
\* episodes of one orphaned group, with another group still to be checked
C21_Witness ==
    /\ pc["p1"] = "idle" /\ op["p1"] = "cleanupAllOrphanedEpisodes"
    /\ outcome["p1"] = CleanupErrorOutcome
    /\ totalDeleted["p1"] > 0
    /\ episodes # {}

\* C22: an episode write that is in its recomputation comes back to its
\* caller with success, whatever other writes, recomputations and passes of
\* cleanupAllOrphanedEpisodes on the same show do meanwhile, also when these
\* never move on; a write that is refused comes back in the step that
\* refuses it.
C22_WriteReturns ==
    \A p \in Procs :
        (pc[p] \in StatsPcs) ~> (pc[p] = "idle" /\ outcome[p] = "ok")

\* a save is back with success while the other process is in a pass of
\* cleanupAllOrphanedEpisodes that is about to delete the episodes of the show
C22_Witness ==
    /\ pc["p1"] = "idle" /\ op["p1"] = "save" /\ outcome["p1"] = "ok"
    /\ statsExit["p1"] = "saved"
    /\ pc["p2"] = "cleanup_deleteMany"

\* the episodes of the show process p has recomputed, when all are skipped
AllSkipped(p) ==
    LET eps == EpisodesOf(key[p].userId, key[p].tmdbId)
    IN  eps # {} /\ \A e \in eps : e.watchStatus = "skipped"

\* after the recomputation of a show whose episodes are all skipped the
\* stored status is completed
C23_StatusPart ==
    \A p \in Procs :
        (Recomputed(p) /\ AllSkipped(p)) =>
            \A m \in TvShowsOf(key[p].userId, key[p].tmdbId) : m.watchStatus = "completed"

\* ... and the aggregate holds the number of episodes as its count and 0 minutes
C23_CountsPart ==
    \A p \in Procs :
        (Recomputed(p) /\ AllSkipped(p)) =>
            \A m \in TvShowsOf(key[p].userId, key[p].tmdbId) :
                /\ StoredNumber(m, "totalEpisodesWatched") =
                      Cardinality(EpisodesOf(key[p].userId, key[p].tmdbId))
                /\ StoredNumber(m, "totalWatchTime") = 0

\* after the recomputation that follows a skipped episode being saved as
\* watched, the minutes are those of the other watched episodes plus the
\* runtime of this one, and the count is what it was with the episode skipped
C23_MarkPart ==
    \A p \in Procs :
        Recomputed(p) =>
            \A o \in replaced[p], d \in written[p] :
                (o.watchStatus = "skipped" /\ d.watchStatus = "watched") =>
                    LET eps == EpisodesOf(key[p].userId, key[p].tmdbId)
                    IN  \A m \in TvShowsOf(key[p].userId, key[p].tmdbId) :
                            /\ StoredNumber(m, "totalWatchTime") =
                                  WatchedMinutes(eps \ {d}) + d.runtime
                            /\ StoredNumber(m, "totalEpisodesWatched") =
                                  CompletedCount((eps \ {d}) \cup {o})

\* C23: skipped episodes count toward the aggregate's episode count and its
\* completion and add no minutes: a recomputed show whose episodes are all
\* skipped is completed, with the number of episodes as count and 0 minutes;
\* a skipped episode saved as watched adds its runtime to the minutes and
\* leaves the count.
C23_SkippedCountNoMinutes == C23_StatusPart /\ C23_CountsPart /\ C23_MarkPart

\* episode e belongs to a show that is on the watchlist of its owner as tv
HasTvShow(e) ==
    \E m \in media : m.addedBy = e.addedBy /\ m.tmdbId = e.tmdbId /\ m.type = "tv"

\* C24: with one request at a time, no step of a pass of
\* cleanupAllOrphanedEpisodes removes or changes an episode whose show is on
\* the watchlist as tv, adds an episode, or touches the Media collection: the
\* episodes of the shows that exist when the pass starts are there when it ends.
C24_CleanupKeepsShows ==
    [][\A p \in Procs :
          (op'[p] = "cleanupAllOrphanedEpisodes"
              /\ (pc[p] \in CleanupPcs \/ pc'[p] \in CleanupPcs)) =>
              /\ UNCHANGED <<media, nextId>>
              /\ episodes' \subseteq episodes
              /\ \A e \in episodes : HasTvShow(e) => e \in episodes']_vars

\* a pass deleted the two episodes of u2, who has show 10 as a movie only; the
\* two episodes of u1, who has it as tv, are stored
C24_Witness ==
    /\ pc["p1"] = "idle" /\ op["p1"] = "cleanupAllOrphanedEpisodes"
    /\ outcome["p1"] = "ok"
    /\ totalDeleted["p1"] = 2
    /\ Cardinality(EpisodesOf("u1", 10)) = 2
    /\ TvShowsOf("u1", 10) # {}
    /\ EpisodesOf("u2", 10) = {}
    /\ \E m \in media : m.addedBy = "u2" /\ m.type = "movie"

\* C25: while a user adds a show to the watchlist and saves episodes of it,
\* the deleteMany of a pass of cleanupAllOrphanedEpisodes removes no episode
\* whose show is on the watchlist as tv at the moment of the delete, also when
\* the show was added after the pass had looked for it.
C25_NoDeleteOfExistingShow ==
    [][\A p \in Procs :
          CleanupDeleteMany(p) => \A e \in episodes \ episodes' : ~HasTvShow(e)]_vars

\* no process is in a recomputation
NoRecomputation == \A p \in Procs : pc[p] \notin StatsPcs

\* the count a tv aggregate stores is between 0 and the number of stored
\* episodes of its owner and show
C26_CountPart ==
    NoRecomputation =>
        \A m \in media :
            (m.type = "tv" /\ StoredNumber(m, "totalEpisodesWatched") # NoNumber) =>
                StoredNumber(m, "totalEpisodesWatched") \in
                    0..Cardinality(EpisodesOf(m.addedBy, m.tmdbId))

\* a tv aggregate is completed only if its show has an episode and all its
\* episodes are watched or skipped
C26_StatusPart ==
    NoRecomputation =>
        \A m \in media :
            (m.type = "tv" /\ m.watchStatus = "completed") =>
                /\ EpisodesOf(m.addedBy, m.tmdbId) # {}
                /\ \A e \in EpisodesOf(m.addedBy, m.tmdbId) :
                      e.watchStatus \in {"watched", "skipped"}

\* C26: whenever no recomputation is in flight, after saves, single deletes
\* and bulk deletes of a show's episodes alike, the count a tv aggregate
\* stores is within 0 and the number of its stored episodes, and an aggregate
\* that is completed has at least one episode and only watched or skipped
\* ones.
C26_CountBoundedCompletedSound == C26_CountPart /\ C26_StatusPart

\* the fields of an aggregate that are derived from its episodes
DerivedFields == {"watchStatus", "totalEpisodesWatched", "totalWatchTime"}

C28_ReconcilersLeaveMedia ==
    [][\A p \in Procs :
          op'[p] \in ReconcilerOps => UNCHANGED <<media, nextId>>]_vars

\* cleanupEpisodesForTVShow removed the two watched episodes of show 10 of u1,
\* which is on the watchlist; its aggregate is still stored as completed
C28_Witness ==
    /\ pc["p1"] = "idle" /\ op["p1"] = "cleanupEpisodesForTVShow"
    /\ outcome["p1"] = "ok"
    /\ deletedCount["p1"] = 2
    /\ EpisodesOf("u1", 10) = {}
    /\ \E m \in TvShowsOf("u1", 10) : m.watchStatus = "completed"

\* C29: on the same store, with no write in between, the (owner, show) groups
\* whose episodes a pass of cleanupAllOrphanedEpisodes has deleted are the
\* groups findOrphanedEpisodes returned, and totalDeleted is the sum of the
\* counts findOrphanedEpisodes reported.
C29_CleanupMatchesFind ==
    (/\ pc["p2"] = "idle"
     /\ op["p2"] = "cleanupAllOrphanedEpisodes"
     /\ outcome["p2"] = "ok") =>
        /\ {<<e.addedBy, e.tmdbId>> : e \in written["p2"]} =
              {<<g.addedBy, g.tmdbId>> : g \in Range(orphaned["p1"])}
        /\ totalDeleted["p2"] = SumCounts(Range(orphaned["p1"]))
        /\ Len(orphaned["p1"]) = Cardinality(Range(orphaned["p1"]))

\* findOrphanedEpisodes reported the two episodes of u2, who has show 10 as a
\* movie only, and not those of u1, who has it as tv; the pass deleted them
C29_Witness ==
    /\ pc["p2"] = "idle" /\ op["p2"] = "cleanupAllOrphanedEpisodes"
    /\ outcome["p2"] = "ok"
    /\ orphaned["p1"] = <<[addedBy |-> "u2", tmdbId |-> 10, count |-> 2]>>
    /\ totalDeleted["p2"] = 2
    /\ EpisodesOf("u1", 10) # {}
    /\ \E m \in media : m.addedBy = "u2" /\ m.type = "movie"

\* C30: the minutes updateTVShowStats computes for a show are the sum of the
\* stored runtimes of its watched episodes, whatever these runtimes are, a
\* stored runtime of 0 included: 45 stands in for a runtime only of an
\* episode that was given none.
C30_StoredRuntimeCounts ==
    \A p \in Procs :
        pc[p] = "stats_save" =>
            AssignStats(CHOOSE m \in tvShow[p] : TRUE, found[p]).totalWatchTime =
                WatchedMinutes(found[p])

====
